---- MODULE Spec2Model ----
(***************************************************************************)
(* Model of the background translation job engine of read-bridge:          *)
(*   src/services/TranslationTaskService.ts  (TranslationTaskService)      *)
(*   src/utils/db.ts                         (translation cache)           *)
(*                                                                         *)
(* JavaScript runs handlers to completion; an async function is suspended  *)
(* only at an await.  Every action below is the code between two           *)
(* suspension points.  executeTranslation() is called synchronously by     *)
(* startTranslation and resumeTranslation: its first segment is the action *)
(* LoopEntry, which runs before anything else (see Sync).                  *)
(* Texts are sequences of UTF-16 code units.                               *)
(***************************************************************************)
EXTENDS Integers, Sequences, FiniteSets, Bags, TLC

\* ------------------------------------------------------------------ bounds
\* the units handed to startTranslation plus the startTranslation and
\* resumeTranslation calls that launch or may launch executeTranslation,
\* plus the subscribe calls
MaxWork == 5

\* the saveTranslation calls made on the cache taken alone
MaxSaves == 2

\* ------------------------------------------------------------------ inputs
TextAa == <<65, 97>>
TextBB == <<66, 66>>
Texts == {TextAa, TextBB}
\* a third text, whose hash differs from that of the other two
TextC == <<67>>
WideTexts == Texts \cup {TextC}
BookIds == {"b1"}
Translated == <<84>>
Empty == <<>>

SeqsUpTo(S, n) == UNION {[1..m -> S] : m \in 0..n}
\* The two texts have the same hash and are interchangeable: a work set is
\* empty or starts with the first of them.
WorkSets == {s \in SeqsUpTo(Texts, MaxWork - 1) : s = <<>> \/ s[1] = TextAa}
\* a batchSize beyond the length of the work set cuts the same windows as
\* one equal to it
BatchSizes(allSentences) == 1..(IF allSentences = <<>> THEN 1 ELSE Len(allSentences))

\* ----------------------------------------------------------- pure helpers
Min(a, b) == IF a < b THEN a ELSE b

\* Math.round(x) for x = num/den >= 0: the nearest integer, halves go up.
Round(num, den) == (2 * num + den) \div (2 * den)

\* Math.min(100, Math.round((completed / total) * 100))
Progress(completed, total) == Min(100, Round(completed * 100, total))

\* resumeTranslation without the slice: the list is kept whole
SliceFromStart(s, from) == s

\* Array.prototype.slice(from) with a possibly negative start
SliceFrom(s, from) ==
  LET n == Len(s)
      start == IF from < 0 THEN (IF n + from < 0 THEN 0 ELSE n + from)
               ELSE Min(from, n)
  IN  SubSeq(s, start + 1, n)

\* the slice without the upper end
WindowToEnd(s, i, batchSize) == SubSeq(s, i + 1, Len(s))

\* Array.prototype.slice(i, Math.min(i + batchSize, length))
Window(s, i, batchSize) == SubSeq(s, i + 1, Min(i + batchSize, Len(s)))

\* the filter applied to the distinct texts instead of the units
RECURSIVE FilterMissesOnce(_, _)
FilterMissesOnce(s, cached) ==
  IF s = <<>> THEN <<>>
  ELSE IF Head(s) \notin cached
       THEN <<Head(s)>> \o FilterMissesOnce(Tail(s), cached \cup {Head(s)})
       ELSE FilterMissesOnce(Tail(s), cached)

\* the filter with a test that no unit passes as cached
FilterMissesAll(s, cached) == s

\* allSentences.filter(s => !cachedTranslations.has(s.text))
RECURSIVE FilterMisses(_, _)
FilterMisses(s, cached) ==
  IF s = <<>> THEN <<>>
  ELSE IF Head(s) \notin cached THEN <<Head(s)>> \o FilterMisses(Tail(s), cached)
       ELSE FilterMisses(Tail(s), cached)

\* --------------------------------------------------------------- db.ts
\* A 32-bit integer is kept as two 16-bit limbs [hi, lo] (the value is
\* hi * 2^16 + lo modulo 2^32, read as a signed two's complement number).
Limb == 65536

\* hash = ((hash << 5) - hash) + char; hash = hash & hash
HashStep(h, char) ==
  LET lo == 31 * h.lo + char
      hi == 31 * h.hi + (lo \div Limb)
  IN  [hi |-> hi % Limb, lo |-> lo % Limb]

RECURSIVE HashFold(_, _)
HashFold(h, t) ==
  IF t = <<>> THEN h ELSE HashFold(HashStep(h, Head(t)), Tail(t))

\* Math.abs of the signed value, as an unsigned number of two limbs
AbsInt32(h) ==
  IF h.hi < 32768 THEN h
  ELSE IF h.lo = 0 THEN [hi |-> Limb - h.hi, lo |-> 0]
  ELSE [hi |-> Limb - 1 - h.hi, lo |-> Limb - h.lo]

\* Number.prototype.toString(36): the digits, most significant first
RECURSIVE ToBase36(_)
ToBase36(n) ==
  LET t == (n.hi % 36) * Limb + n.lo
      q == [hi |-> n.hi \div 36, lo |-> t \div 36]
  IN  IF q.hi = 0 /\ q.lo = 0 THEN <<t % 36>> ELSE ToBase36(q) \o <<t % 36>>

generateSentenceHash(text) == ToBase36(AbsInt32(HashFold([hi |-> 0, lo |-> 0], text)))

\* getBatchTranslations: the keys of the returned Map
getBatchTranslations(db, bookId, sentences) ==
  LET hashes == {generateSentenceHash(sentences[j]) : j \in 1..Len(sentences)}
      records == {r \in db : r.bookId = bookId /\ r.sentenceHash \in hashes}
  IN  {r.originalText : r \in records}

\* saveTranslation: update the record found by [bookId+sentenceHash], else add
saveTranslation(db, bookId, originalText, translatedText) ==
  LET sentenceHash == generateSentenceHash(originalText)
      existing == {r \in db : r.bookId = bookId /\ r.sentenceHash = sentenceHash}
  IN  IF existing # {}
      THEN {IF r \in existing THEN [r EXCEPT !.translatedText = translatedText] ELSE r
              : r \in db}
      ELSE db \cup {[bookId |-> bookId, sentenceHash |-> sentenceHash,
                     originalText |-> originalText, translatedText |-> translatedText]}

\* The operators below keep what the two above leave out: the primary key
\* ++id, the languages and the two dates of a record, and the values of the
\* Map that getBatchTranslations returns.
Undefined == "undefined"

\* .where(['bookId', 'sentenceHash']).equals([bookId, sentenceHash]).first():
\* the id of the matching record with the lowest primary key, NoId if none
NoId == 0

FirstMatch(table, bookId, sentenceHash) ==
  LET found == {r \in table : r.bookId = bookId /\ r.sentenceHash = sentenceHash}
  IN  IF found = {} THEN NoId
      ELSE (CHOOSE r \in found : \A q \in found : r.id <= q.id).id

\* the update that also replaces the original text
UpdateRecordWhole(table, id, call) ==
  {IF r.id = id
   THEN [r EXCEPT !.originalText = call.originalText,
                  !.translatedText = call.translatedText,
                  !.sourceLanguage = call.sourceLanguage,
                  !.targetLanguage = call.targetLanguage,
                  !.updatedAt = call.now]
   ELSE r : r \in table}

\* lines 84-89: db.translations.update(existing.id, {...})
UpdateRecord(table, id, call) ==
  {IF r.id = id
   THEN [r EXCEPT !.translatedText = call.translatedText,
                  !.sourceLanguage = call.sourceLanguage,
                  !.targetLanguage = call.targetLanguage,
                  !.updatedAt = call.now]
   ELSE r : r \in table}

\* lines 93-102: db.translations.add({...}) under the primary key id
AddRecord(table, id, call) ==
  table \cup {[id |-> id, bookId |-> call.bookId, sentenceHash |-> call.sentenceHash,
               originalText |-> call.originalText,
               translatedText |-> call.translatedText,
               sourceLanguage |-> call.sourceLanguage,
               targetLanguage |-> call.targetLanguage,
               createdAt |-> call.now, updatedAt |-> call.now]}

\* the query without .where('bookId').equals(bookId)
MatchingRecordsAnyBook(table, bookId, sentences) ==
  LET hashes == {generateSentenceHash(sentences[j]) : j \in 1..Len(sentences)}
  IN  {r \in table : r.sentenceHash \in hashes}

\* lines 117-121: the records of the book whose hash is one of the hashes
MatchingRecords(table, bookId, sentences) ==
  LET hashes == {generateSentenceHash(sentences[j]) : j \in 1..Len(sentences)}
  IN  {r \in table : r.bookId = bookId /\ r.sentenceHash \in hashes}

\* lines 124-129: the Map originalText -> translatedText; toArray() yields
\* the records of one bookId in the order of the primary key and a later
\* set() replaces an earlier one
TranslationMapOf(records) ==
  [text \in {r.originalText : r \in records} |->
     LET same == {r \in records : r.originalText = text}
     IN  (CHOOSE r \in same : \A q \in same : q.id <= r.id).translatedText]

\* ------------------------------------------- TranslationTaskService.ts
\* A provider response to a batch request is a sequence of lines; a line is
\* [tag, body]: tag >= 0 when the line starts with "[<digits>]", NoTag when
\* it does not; body is the text after the tag, trimmed.
NoTag == -1

MapPut(m, key, v) == [x \in (DOMAIN m) \cup {key} |-> IF x = key THEN v ELSE m[x]]

\* the parser that takes the lines in their order, whatever their tags
RECURSIVE TranslationMapByOrder(_, _, _)
TranslationMapByOrder(lines, n, acc) ==
  IF lines = <<>> THEN acc
  ELSE TranslationMapByOrder(Tail(lines), n,
                             MapPut(acc, Cardinality(DOMAIN acc), Head(lines).body))

\* lines.forEach(...): translationMap, index -> translation
RECURSIVE TranslationMap(_, _, _)
TranslationMap(lines, n, acc) ==
  IF lines = <<>> THEN acc
  ELSE LET line == Head(lines)
           index == line.tag - 1
       IN  IF line.tag # NoTag /\ index >= 0 /\ index < n
           THEN TranslationMap(Tail(lines), n, MapPut(acc, index, line.body))
           ELSE TranslationMap(Tail(lines), n, acc)

\* sentences.forEach(...): translations, text -> translation
RECURSIVE MapToSentences(_, _, _, _)
MapToSentences(sentences, index, tm, acc) ==
  IF index >= Len(sentences) THEN acc
  ELSE IF index \in DOMAIN tm /\ tm[index] # Empty
       THEN MapToSentences(sentences, index + 1, tm,
                           MapPut(acc, sentences[index + 1], tm[index]))
       ELSE MapToSentences(sentences, index + 1, tm, acc)

\* translateBatch for a response that arrived (a throwing call is rethrown)
translateBatch(sentences, response) ==
  IF response = <<>> THEN <<>>
  ELSE MapToSentences(sentences, 0, TranslationMap(response, Len(sentences), <<>>), <<>>)

\* if (translation && translation !== sentence.text)
Usable(translation, text) == translation # Empty /\ translation # text

\* The provider's answers: per unit of the window no line, a translated line
\* or a line echoing the original text.
RECURSIVE ResponseLines(_, _, _)
ResponseLines(batch, f, j) ==
  IF j > Len(batch) THEN <<>>
  ELSE (CASE f[j] = "none" -> <<>>
          [] f[j] = "ok"   -> <<[tag |-> j, body |-> Translated]>>
          [] f[j] = "echo" -> <<[tag |-> j, body |-> batch[j]]>>)
       \o ResponseLines(batch, f, j + 1)

BatchResponses(batch) ==
  {ResponseLines(batch, f, 1) : f \in [1..Len(batch) -> {"none", "ok", "echo"}]}

\* lines that the parser of lines 88-97 must pass over: one without a tag,
\* one tagged 0 and one tagged beyond the n units of the window
JunkLines(n) ==
  <<[tag |-> NoTag, body |-> Translated], [tag |-> 0, body |-> Translated],
    [tag |-> n + 1, body |-> Translated]>>

\* a line "[1]" followed by blanks only: match[2].trim() is empty
BlankLine == <<[tag |-> 1, body |-> Empty]>>

\* the provider's answers with such lines before or after the others
JunkResponses(batch) ==
  {JunkLines(Len(batch)) \o r : r \in BatchResponses(batch)}
    \cup {r \o JunkLines(Len(batch)) : r \in BatchResponses(batch)}
    \cup {r \o BlankLine : r \in BatchResponses(batch)}

SingleResponses(text) == {Empty, text, Translated}

VARIABLES
  currentTask,      \* this.currentTask
  abortController,  \* this.abortController: "null", "live" or "aborted"
  db,               \* db.translations
  starts,           \* bag of startTranslation calls awaiting getBatchTranslations
  loops,            \* bag of the frames of the executeTranslation calls in progress
  jobs,             \* number of tasks created so far
  launched,         \* number of executeTranslation calls made so far
  handed,           \* number of units handed to startTranslation so far
  notified,         \* what notify() last passed to the listeners
  listeners,        \* this.listeners: the callbacks registered, by number
  received,         \* per callback subscribed so far, what it was last called with
                    \* since it subscribed (Gone once it has unsubscribed)
  invoked,          \* how often the last subscribe call has called its callback
  saves,            \* bag of the saveTranslation calls in progress (db.ts taken alone)
  clock,            \* number of saveTranslation calls made so far: the time
  nextId,           \* the next value of the auto-incremented primary key ++id
  returned          \* the last call of db.ts, or of translateBatch, taken alone that
                    \* returned, with what it returned

vars == <<currentTask, abortController, db, starts, loops, jobs, launched, handed,
          notified, listeners, received, invoked, saves, clock, nextId, returned>>

Null == [status |-> "null"]

\* returned before any call of db.ts has returned
NoReturn == [op |-> "none"]

\* the status of this.currentTask, "null" when there is no task
StatusOf(task) == IF task = Null THEN "null" ELSE task.status

\* the frame of an executeTranslation call that has returned
Free ==
  [pc |-> "done", jobId |-> 0, bookId |-> "", sentences |-> <<>>,
   batchSize |-> 0, totalSentences |-> 0, completed |-> 0, i |-> 0, k |-> 0,
   trans |-> <<>>]

EntryLoop == [Free EXCEPT !.pc = "entry"]

\* The result of a loop segment: the task, the loop's frame, whether notify()
\* was called.
Out(task, loop, notify) == [task |-> task, loop |-> loop, notify |-> notify]

\* this.abortController?.signal.aborted || this.currentTask.status !== 'running'
\* "throw" is the TypeError of reading .status of null
Check ==
  IF abortController = "aborted" THEN "break"
  ELSE IF currentTask = Null THEN "throw"
  ELSE IF currentTask.status # "running" THEN "break"
  ELSE "go"

\* lines 264-273: a TypeError on this.currentTask === null reaches the outer
\* catch, which finds no task and returns
Thrown == Out(currentTask, Free, FALSE)

\* lines 264-273: the outer catch of executeTranslation takes an exception
\* with the given message; the task gets the field error, absent until then
Caught(message) ==
  IF currentTask = Null THEN Thrown
  ELSE Out([f \in DOMAIN currentTask \cup {"error"} |->
              CASE f = "status"  -> "error"
                [] f = "endTime" -> TRUE
                [] f = "error"   -> message
                [] OTHER         -> currentTask[f]],
           Free, TRUE)

\* no completion test at all
CanCompleteAlways(status) == TRUE

\* the completion test without the check of the status
CanCompleteUnlessFailed(status) == status # "error"

\* if (this.currentTask.status === 'running')
CanComplete(status) == status = "running"

\* the end of executeTranslation without the completion of lines 255-263
FinishSilent(L) == Out(currentTask, Free, FALSE)

\* lines 254-273: after the for loop
Finish(L) ==
  IF currentTask = Null THEN Thrown
  ELSE IF CanComplete(currentTask.status)
  THEN Out([currentTask EXCEPT !.status = "completed", !.endTime = TRUE,
                               !.progress = 100,
                               !.completedSentences = L.totalSentences],
           Free, TRUE)
  ELSE Out(currentTask, Free, FALSE)

\* lines 185-195: the head of the for loop at index i
NextWindow(L, i) ==
  IF i < Len(L.sentences)
  THEN CASE Check = "go" ->
              Out(currentTask, [L EXCEPT !.pc = "batch", !.i = i, !.k = 0, !.trans = <<>>],
                  FALSE)
         [] Check = "break" -> Finish(L)
         [] Check = "throw" -> Thrown
  ELSE Finish(L)

Batch(L) == Window(L.sentences, L.i, L.batchSize)

AdvanceQuiet(L) ==
  IF currentTask = Null THEN Thrown
  ELSE LET completed == L.completed + Len(Batch(L))
       IN  Out([currentTask EXCEPT !.completedSentences = completed,
                                   !.progress = Progress(completed, L.totalSentences)],
               [L EXCEPT !.pc = "delay", !.completed = completed, !.k = 0,
                         !.trans = <<>>],
               FALSE)

\* the count of one unit per window
AdvanceByOne(L) ==
  IF currentTask = Null THEN Thrown
  ELSE LET completed == L.completed + 1
       IN  Out([currentTask EXCEPT !.completedSentences = completed,
                                   !.progress = Progress(completed, L.totalSentences)],
               [L EXCEPT !.pc = "delay", !.completed = completed, !.k = 0,
                         !.trans = <<>>],
               TRUE)

\* lines 205-210 and 242-247: count the window and notify
Advance(L) ==
  IF currentTask = Null THEN Thrown
  ELSE LET completed == L.completed + Len(Batch(L))
       IN  Out([currentTask EXCEPT !.completedSentences = completed,
                                   !.progress = Progress(completed, L.totalSentences)],
               [L EXCEPT !.pc = "delay", !.completed = completed, !.k = 0,
                         !.trans = <<>>],
               TRUE)

\* the fallback loop that gives up after its first unit
FallbackAtFirst(L, k) ==
  IF k > 1 THEN Advance(L)
  ELSE CASE Check = "go" ->
              Out(currentTask, [L EXCEPT !.pc = "single", !.k = k, !.trans = <<>>], FALSE)
         [] Check = "break" -> Advance(L)
         [] Check = "throw" -> Thrown

\* lines 215-240: the fallback loop at the k-th unit of the window
FallbackAt(L, k) ==
  IF k > Len(Batch(L)) THEN Advance(L)
  ELSE CASE Check = "go" ->
              Out(currentTask, [L EXCEPT !.pc = "single", !.k = k, !.trans = <<>>], FALSE)
         [] Check = "break" -> Advance(L)
         [] Check = "throw" -> Thrown

\* the loop of lines 198-203 with the check of line 187 before each unit
SaveAtUnlessHalted(L, k) ==
  LET batch == Batch(L)
      todo == {j \in k..Len(batch) :
                 batch[j] \in DOMAIN L.trans /\ Usable(L.trans[batch[j]], batch[j])}
  IN  IF todo # {} /\ Check = "go"
      THEN Out(currentTask,
               [L EXCEPT !.pc = "save", !.k = CHOOSE j \in todo : \A m \in todo : j <= m],
               FALSE)
      ELSE Advance(L)

\* lines 198-203: the next unit of the window, from the k-th on, to save
SaveAt(L, k) ==
  LET batch == Batch(L)
      todo == {j \in k..Len(batch) :
                 batch[j] \in DOMAIN L.trans /\ Usable(L.trans[batch[j]], batch[j])}
  IN  IF todo # {}
      THEN Out(currentTask,
               [L EXCEPT !.pc = "save", !.k = CHOOSE j \in todo : \A m \in todo : j <= m],
               FALSE)
      ELSE Advance(L)

\* ------------------------------------------------------------- the state
Init ==
  /\ currentTask = Null
  /\ abortController = "null"
  /\ db = {}
  /\ starts = EmptyBag
  /\ loops = EmptyBag
  /\ jobs = 0
  /\ launched = 0
  /\ handed = 0
  /\ notified = Null
  /\ listeners = {}
  /\ received = <<>>
  /\ invoked = 0
  /\ saves = EmptyBag
  /\ clock = 0
  /\ nextId = 1
  /\ returned = NoReturn

\* executeTranslation() has been called and has not reached its first await:
\* nothing else runs until it has.
Sync == \E L \in BagToSet(loops) : L.pc = "entry"

One(x) == SetToBag({x})

CanLaunch(units) ==
  launched + BagCardinality(starts) + handed + Len(received) + units < MaxWork

\* this.abortController?.abort()
Abort(controller) == IF controller = "null" THEN "null" ELSE "aborted"

\* stopTranslation without the line this.currentTask = null
StopTaskKept(task) == [task EXCEPT !.status = "paused", !.endTime = TRUE]

\* stopTranslation's effect on this.currentTask
StopTask(task) == Null

\* pauseTranslation with the end time that stopTranslation sets
PauseTaskStamped(task) == [task EXCEPT !.status = "paused", !.endTime = TRUE]

\* pauseTranslation's effect on this.currentTask (line 279)
PauseTask(task) == [task EXCEPT !.status = "paused"]

\* the guard of resumeTranslation without the test of the status
CanResumeAny(task) == task # Null

\* if (this.currentTask && this.currentTask.status === 'paused')
CanResume(task) == task # Null /\ task.status = "paused"

\* notify(): every registered callback is called with the task
Notify(task) ==
  /\ notified' = task
  /\ received' = [cb \in DOMAIN received |->
                    IF cb \in listeners THEN task ELSE received[cb]]

\* --------------------------------------------------------- control calls
\* lines 309-318
Stop ==
  /\ ~Sync
  /\ IF currentTask # Null
     THEN /\ currentTask' = StopTask(currentTask)
          /\ abortController' = Abort(abortController)
          /\ Notify(currentTask')
     ELSE UNCHANGED <<currentTask, abortController, notified, received>>
  /\ UNCHANGED <<db, starts, loops, jobs, launched, handed, listeners, invoked,
                 saves, clock, nextId, returned>>

\* lines 277-284
Pause ==
  /\ ~Sync
  /\ IF currentTask # Null /\ currentTask.status = "running"
     THEN /\ currentTask' = PauseTask(currentTask)
          /\ abortController' = Abort(abortController)
          /\ Notify(currentTask')
     ELSE UNCHANGED <<currentTask, abortController, notified, received>>
  /\ UNCHANGED <<db, starts, loops, jobs, launched, handed, listeners, invoked,
                 saves, clock, nextId, returned>>

\* lines 287-306, up to the call of executeTranslation
ResumeCall ==
  /\ ~Sync
  /\ IF CanResume(currentTask)
     THEN /\ launched' = launched + 1
          /\ LET initialCached == currentTask.totalSentences - Len(currentTask.sentences)
                 translatedFromNeedList == currentTask.completedSentences - initialCached
                 remainingSentences == SliceFrom(currentTask.sentences, translatedFromNeedList)
             IN  currentTask' = [currentTask EXCEPT !.sentences = remainingSentences,
                                                    !.status = "running"]
          /\ abortController' = "live"
          /\ Notify(currentTask')
          /\ loops' = loops (+) One(EntryLoop)
     ELSE UNCHANGED <<currentTask, abortController, loops, launched, notified, received>>
  /\ UNCHANGED <<db, starts, jobs, handed, listeners, invoked,
                 saves, clock, nextId, returned>>

\* resumeTranslation, called while there is room for the executeTranslation
\* call it may make
Resume ==
  /\ CanResume(currentTask) => CanLaunch(0)
  /\ ResumeCall

\* lines 321-326
ClearCompleted ==
  /\ ~Sync
  /\ IF currentTask # Null /\ currentTask.status = "completed"
     THEN /\ currentTask' = Null
          /\ Notify(currentTask')
     ELSE UNCHANGED <<currentTask, notified, received>>
  /\ UNCHANGED <<abortController, db, starts, loops, jobs, launched, handed, listeners, invoked,
                 saves, clock, nextId, returned>>

\* lines 122-135: startTranslation up to the await of getBatchTranslations,
\* which is to answer with the Map whose keys are cached;
\* chatModel tells whether useLLMStore holds a chat model at the call.
\* "await this.stopTranslation()" awaits a value that is not a promise: the
\* function continues in the same microtask checkpoint, before any timer,
\* provider response, storage response or user event is handled.
StartBeginGot(bookId, allSentences, batchSize, chatModel, cached) ==
  /\ ~Sync
  /\ IF currentTask # Null /\ currentTask.status = "running"
     THEN /\ currentTask' = StopTask(currentTask)
          /\ abortController' = Abort(abortController)
          /\ Notify(currentTask')
     ELSE UNCHANGED <<currentTask, abortController, notified, received>>
  /\ IF ~chatModel
     THEN UNCHANGED <<starts, handed>>
     ELSE /\ handed' = handed + Len(allSentences)
          /\ starts' = starts (+) One(
               [bookId |-> bookId, allSentences |-> allSentences,
                batchSize |-> batchSize,
                cachedTranslations |-> cached])
  /\ UNCHANGED <<db, loops, jobs, launched, listeners, invoked,
                 saves, clock, nextId, returned>>

\* the same, the query of getBatchTranslations succeeding
StartBegin(bookId, allSentences, batchSize, chatModel) ==
  StartBeginGot(bookId, allSentences, batchSize, chatModel,
                getBatchTranslations(db, bookId, allSentences))

\* lines 137-169: startTranslation after getBatchTranslations has answered,
\* up to the call of executeTranslation
StartCreate(call) ==
  /\ ~Sync
  /\ call \in BagToSet(starts)
  /\ LET needTranslation == FilterMisses(call.allSentences, call.cachedTranslations)
         alreadyCached == Len(call.allSentences) - Len(needTranslation)
     IN  IF Len(needTranslation) = 0
         THEN UNCHANGED <<currentTask, abortController, loops, jobs, launched, notified, received>>
         ELSE /\ currentTask' =
                   [id |-> jobs + 1,
                    bookId |-> call.bookId,
                    sentences |-> needTranslation,
                    batchSize |-> call.batchSize,
                    totalSentences |-> Len(call.allSentences),
                    completedSentences |-> alreadyCached,
                    progress |-> Progress(alreadyCached, Len(call.allSentences)),
                    status |-> "running",
                    endTime |-> FALSE]
              /\ jobs' = jobs + 1
              /\ launched' = launched + 1
              /\ abortController' = "live"
              /\ Notify(currentTask')
              /\ loops' = loops (+) One(EntryLoop)
  /\ starts' = starts (-) One(call)
  /\ UNCHANGED <<db, handed, listeners, invoked,
                 saves, clock, nextId, returned>>

\* ------------------------------------------------------ executeTranslation
Apply(L, out) ==
  /\ currentTask' = out.task
  /\ loops' = IF out.loop = Free THEN loops (-) One(L)
              ELSE (loops (-) One(L)) (+) One(out.loop)
  /\ IF out.notify THEN Notify(out.task) ELSE UNCHANGED <<notified, received>>

\* lines 173-195: from the call to the first await
LoopEntry(L) ==
  /\ L \in BagToSet(loops)
  /\ L.pc = "entry"
  /\ IF currentTask = Null \/ currentTask.status # "running"
     THEN Apply(L, Out(currentTask, Free, FALSE))
     ELSE Apply(L, NextWindow([pc |-> "entry", jobId |-> currentTask.id,
                               bookId |-> currentTask.bookId,
                               sentences |-> currentTask.sentences,
                               batchSize |-> currentTask.batchSize,
                               totalSentences |-> currentTask.totalSentences,
                               completed |-> currentTask.completedSentences,
                               i |-> 0, k |-> 0, trans |-> <<>>], 0))
  /\ UNCHANGED <<abortController, db, starts, jobs, launched, handed, listeners, invoked,
                 saves, clock, nextId, returned>>

\* line 195: the batch request throws
LoopBatchThrow(L) ==
  /\ ~Sync
  /\ L \in BagToSet(loops)
  /\ L.pc = "batch"
  /\ Apply(L, FallbackAt(L, 1))
  /\ UNCHANGED <<abortController, db, starts, jobs, launched, handed, listeners, invoked,
                 saves, clock, nextId, returned>>

\* lines 195-203: the batch request answers with response
LoopBatchAnswer(L, response) ==
  /\ ~Sync
  /\ L \in BagToSet(loops)
  /\ L.pc = "batch"
  /\ Apply(L, SaveAt([L EXCEPT !.trans = translateBatch(Batch(L), response)], 1))
  /\ UNCHANGED <<abortController, db, starts, jobs, launched, handed, listeners, invoked,
                 saves, clock, nextId, returned>>

\* line 195: the batch request answers
LoopBatchReturn(L) ==
  /\ L \in BagToSet(loops)
  /\ L.pc = "batch"
  /\ \E response \in BatchResponses(Batch(L)) : LoopBatchAnswer(L, response)

\* line 201: saveTranslationToDB has finished for the k-th unit of the window
LoopSaveReturn(L) ==
  /\ ~Sync
  /\ L \in BagToSet(loops)
  /\ L.pc = "save"
  /\ LET text == Batch(L)[L.k]
     IN  /\ db' = saveTranslation(db, L.bookId, text, L.trans[text])
         /\ Apply(L, SaveAt(L, L.k + 1))
  /\ UNCHANGED <<abortController, starts, jobs, launched, handed, listeners, invoked,
                 saves, clock, nextId, returned>>

\* the single-unit request throws and no catch of line 237 takes it
LoopSingleThrowEscapes(L) ==
  /\ ~Sync
  /\ L \in BagToSet(loops)
  /\ L.pc = "single"
  /\ Apply(L, Caught("completions"))
  /\ UNCHANGED <<abortController, db, starts, jobs, launched, handed, listeners, invoked,
                 saves, clock, nextId, returned>>

\* line 232: the single-unit request throws
LoopSingleThrow(L) ==
  /\ ~Sync
  /\ L \in BagToSet(loops)
  /\ L.pc = "single"
  /\ Apply(L, FallbackAt(L, L.k + 1))
  /\ UNCHANGED <<abortController, db, starts, jobs, launched, handed, listeners, invoked,
                 saves, clock, nextId, returned>>

\* lines 232-236: the single-unit request answers with translation
LoopSingleAnswer(L, translation) ==
  /\ ~Sync
  /\ L \in BagToSet(loops)
  /\ L.pc = "single"
  /\ LET text == Batch(L)[L.k]
     IN  IF Usable(translation, text)
         THEN Apply(L, Out(currentTask,
                           [L EXCEPT !.pc = "ssave", !.trans = MapPut(<<>>, text, translation)],
                           FALSE))
         ELSE Apply(L, FallbackAt(L, L.k + 1))
  /\ UNCHANGED <<abortController, db, starts, jobs, launched, handed, listeners, invoked,
                 saves, clock, nextId, returned>>

\* line 232: the single-unit request answers
LoopSingleReturn(L) ==
  /\ L \in BagToSet(loops)
  /\ L.pc = "single"
  /\ \E translation \in SingleResponses(Batch(L)[L.k]) : LoopSingleAnswer(L, translation)

\* line 235: saveTranslationToDB has finished for the fallback unit
LoopSingleSaveReturn(L) ==
  /\ ~Sync
  /\ L \in BagToSet(loops)
  /\ L.pc = "ssave"
  /\ LET text == Batch(L)[L.k]
     IN  /\ db' = saveTranslation(db, L.bookId, text, L.trans[text])
         /\ Apply(L, FallbackAt(L, L.k + 1))
  /\ UNCHANGED <<abortController, starts, jobs, launched, handed, listeners, invoked,
                 saves, clock, nextId, returned>>

\* line 251: the delay has elapsed
LoopDelayReturn(L) ==
  /\ ~Sync
  /\ L \in BagToSet(loops)
  /\ L.pc = "delay"
  /\ Apply(L, NextWindow(L, L.i + L.batchSize))
  /\ UNCHANGED <<abortController, db, starts, jobs, launched, handed, listeners, invoked,
                 saves, clock, nextId, returned>>

\* ------------------------------------------------------------ subscribe
\* what a callback does when subscribe calls it: nothing, or a call of
\* pauseTranslation or of stopTranslation
Reactions == {"none", "pause", "stop"}

\* subscribe with the callback called before it is added to the set
DuringFirstCallLate(registered, cb) == registered

\* the callbacks in this.listeners while subscribe calls the new one:
\* line 32 (add) comes before line 34 (call)
DuringFirstCall(registered, cb) == registered \cup {cb}

\* lines 31-40: subscribe(listener), for a callback not subscribed before;
\* callbacks are numbered in the order of the subscribe calls
Subscribe(reaction) ==
  /\ ~Sync
  /\ CanLaunch(0)
  /\ LET cb == Len(received) + 1
         first == Append(received, currentTask)
         reached == DuringFirstCall(listeners, cb)
         task == CASE reaction = "stop" /\ currentTask # Null -> StopTask(currentTask)
                   [] reaction = "pause" /\ StatusOf(currentTask) = "running" ->
                        PauseTask(currentTask)
                   [] OTHER -> currentTask
     IN  /\ listeners' = listeners \cup {cb}
         /\ IF task # currentTask
            THEN /\ currentTask' = task
                 /\ abortController' = Abort(abortController)
                 /\ notified' = task
                 /\ received' = [x \in DOMAIN first |->
                                   IF x \in reached THEN task ELSE first[x]]
                 /\ invoked' = IF cb \in reached THEN 2 ELSE 1
            ELSE /\ received' = first
                 /\ invoked' = 1
                 /\ UNCHANGED <<currentTask, abortController, notified>>
  /\ UNCHANGED <<db, starts, loops, jobs, launched, handed,
                 saves, clock, nextId, returned>>

\* what received holds for a callback that has unsubscribed
Gone == [status |-> "gone"]

\* lines 37-39: the function that subscribe returned is called
Unsubscribe(cb) ==
  /\ ~Sync
  /\ cb \in listeners
  /\ listeners' = listeners \ {cb}
  /\ received' = [received EXCEPT ![cb] = Gone]
  /\ UNCHANGED <<currentTask, abortController, db, starts, loops, jobs, launched,
                 handed, notified, invoked, saves, clock, nextId, returned>>

StartBeginAny ==
  \/ \E bookId \in BookIds, allSentences \in {s \in WorkSets : CanLaunch(Len(s))} :
       \E batchSize \in BatchSizes(allSentences) :
         StartBegin(bookId, allSentences, batchSize, TRUE)
  \/ StartBegin("b1", <<TextAa>>, 1, FALSE)

LoopStep(L) ==
  \/ LoopEntry(L)
  \/ LoopBatchThrow(L)
  \/ LoopBatchReturn(L)
  \/ LoopSaveReturn(L)
  \/ LoopSingleThrow(L)
  \/ LoopSingleReturn(L)
  \/ LoopSingleSaveReturn(L)
  \/ LoopDelayReturn(L)

Next ==
  \/ StartBeginAny
  \/ \E call \in BagToSet(starts) : StartCreate(call)
  \/ Pause
  \/ Resume
  \/ Stop
  \/ ClearCompleted
  \/ \E L \in BagToSet(loops) : LoopStep(L)

Spec == Init /\ [][Next]_vars

\* the service with callbacks subscribing and unsubscribing
NextObserved ==
  \/ Next
  \/ \E reaction \in Reactions : Subscribe(reaction)
  \/ \E cb \in listeners : Unsubscribe(cb)

SpecObserved == Init /\ [][NextObserved]_vars

\* --------------------------------------------------- db.ts taken alone
\* The functions of db.ts called by any callers, in any order; a call is
\* suspended at each await and the calls in progress interleave there.
service == <<currentTask, abortController, starts, loops, jobs, launched, handed,
             notified, listeners, received, invoked>>

DbBookIds == {"b1", "b2"}
\* the two books are interchangeable: the first call is for the first
SaveBookIds == IF clock = 0 THEN {"b1"} ELSE DbBookIds
\* the lists asked of getBatchTranslations: a text, or a text and the one
\* whose hash differs
GetLists == {<<TextAa>>, <<TextBB>>, <<TextC>>, <<TextBB, TextC>>}
\* what a caller passes as translatedText, sourceLanguage and targetLanguage:
\* the service passes no languages (lines 201 and 235)
Retranslated == <<85>>
SaveArgs == {[translatedText |-> Translated,
              sourceLanguage |-> Undefined, targetLanguage |-> Undefined],
             [translatedText |-> Retranslated,
              sourceLanguage |-> "en", targetLanguage |-> "zh"]}

\* lines 72-80: saveTranslation up to the await of the lookup
SaveCall(bookId, originalText, args) ==
  /\ clock < MaxSaves
  /\ clock' = clock + 1
  /\ saves' = saves (+) One(
       [pc |-> "lookup", bookId |-> bookId,
        sentenceHash |-> generateSentenceHash(originalText),
        originalText |-> originalText, translatedText |-> args.translatedText,
        sourceLanguage |-> args.sourceLanguage,
        targetLanguage |-> args.targetLanguage,
        now |-> clock + 1, existing |-> NoId])
  /\ UNCHANGED <<db, nextId, returned>>
  /\ UNCHANGED service

\* lines 77-82: the lookup reads the table and the call continues to its
\* second await
SaveLookup(call) ==
  /\ call \in BagToSet(saves)
  /\ call.pc = "lookup"
  /\ saves' = (saves (-) One(call)) (+) One(
       [call EXCEPT !.pc = "write",
                    !.existing = FirstMatch(db, call.bookId, call.sentenceHash)])
  /\ UNCHANGED <<db, clock, nextId, returned>>
  /\ UNCHANGED service

\* lines 84-90 and 93-103: the update or the add is carried out and the
\* call returns the id
SaveWrite(call) ==
  /\ call \in BagToSet(saves)
  /\ call.pc = "write"
  /\ saves' = saves (-) One(call)
  /\ IF call.existing # NoId
     THEN /\ db' = UpdateRecord(db, call.existing, call)
          /\ returned' = [op |-> "saveTranslation", call |-> call, id |-> call.existing]
          /\ UNCHANGED nextId
     ELSE /\ db' = AddRecord(db, nextId, call)
          /\ returned' = [op |-> "saveTranslation", call |-> call, id |-> nextId]
          /\ nextId' = nextId + 1
  /\ UNCHANGED clock
  /\ UNCHANGED service

\* lines 112-129: getBatchTranslations, whose one await is the query
GetBatch(bookId, sentences) ==
  /\ returned' = [op |-> "getBatchTranslations", bookId |-> bookId,
                  sentences |-> sentences,
                  map |-> TranslationMapOf(MatchingRecords(db, bookId, sentences))]
  /\ UNCHANGED <<db, saves, clock, nextId>>
  /\ UNCHANGED service

NextDb ==
  \/ \E bookId \in SaveBookIds, originalText \in WideTexts, args \in SaveArgs :
       SaveCall(bookId, originalText, args)
  \/ \E call \in BagToSet(saves) : SaveLookup(call)
  \/ \E call \in BagToSet(saves) : SaveWrite(call)
  \/ \E bookId \in DbBookIds, sentences \in GetLists :
       GetBatch(bookId, sentences)

SpecDb == Init /\ [][NextDb]_vars

\* ------------------------------------------------------------ properties
JobId(task) == IF task = Null THEN 0 ELSE task.id

\* some executeTranslation call takes a step after its first await
LoopStepOf(L) == L.pc # "entry" /\ LoopStep(L)

\* the step of L ends by dispatching a provider request (batch or single)
Dispatches(L) ==
  \E L2 \in BagToSet(loops') :
    /\ L2.pc \in {"batch", "single"}
    /\ L2.jobId = L.jobId
    /\ loops' = (loops (-) One(L)) (+) One(L2)

\* clamp(round(completedUnits / totalUnits * 100), 0, 100)
ClampedPercent(completed, total) ==
  LET r == Round(completed * 100, total)
  IN  IF r < 0 THEN 0 ELSE IF r > 100 THEN 100 ELSE r

\* C1: the current task always has 0 <= completedSentences <= totalSentences.
C1_CompletedWithinTotal ==
  currentTask # Null =>
    /\ 0 <= currentTask.completedSentences
    /\ currentTask.completedSentences <= currentTask.totalSentences

\* C2: no step taken while the task is running lowers its completedSentences.
C2_MonotoneWhileRunning ==
  [][(/\ currentTask # Null
      /\ currentTask.status = "running"
      /\ currentTask' # Null
      /\ currentTask'.id = currentTask.id)
     => currentTask'.completedSentences >= currentTask.completedSentences]_vars

\* C3: at most one executeTranslation call is in progress at any time.
C3_AtMostOneLoop == BagCardinality(loops) <= 1

\* C4: a step of an executeTranslation call changes the current task only if
\* it is the task the call was made for, and dispatches a provider request
\* only while that task is the current one.
C4_LoopTouchesOwnJobOnly ==
  [][\A L \in BagToSet(loops) :
       LoopStepOf(L) =>
         /\ currentTask' # currentTask => JobId(currentTask) = L.jobId
         /\ Dispatches(L) => JobId(currentTask) = L.jobId]_vars

\* C5: a task whose status is completed has completedSentences =
\* totalSentences and progress = 100.
C5_CompletedMeansAll ==
  (currentTask # Null /\ currentTask.status = "completed") =>
    /\ currentTask.completedSentences = currentTask.totalSentences
    /\ currentTask.progress = 100

\* C6: in the task at every suspension point and in every snapshot passed to
\* the listeners, progress is the clamped rounded percentage of
\* completedSentences over totalSentences of that same snapshot.
C6_ProgressDerived ==
  ~Sync =>
    \A t \in {currentTask, notified} :
      t # Null => t.progress = ClampedPercent(t.completedSentences, t.totalSentences)

AllowedStatusChanges ==
  {<<"running", "paused">>, <<"paused", "running">>,
   <<"running", "completed">>, <<"running", "error">>}

\* C7: the status of a task changes only from running to paused (by
\* pauseTranslation), from paused to running (by resumeTranslation), from
\* running to completed and from running to error.
C7_StatusTransitions ==
  [][(/\ currentTask # Null
      /\ currentTask' # Null
      /\ currentTask'.id = currentTask.id
      /\ currentTask'.status # currentTask.status)
     => /\ <<currentTask.status, currentTask'.status>> \in AllowedStatusChanges
        /\ currentTask'.status = "paused" => Pause
        /\ currentTask.status = "paused" => Resume]_vars

\* a task that was paused and resumed has run to completion
C7_Witness ==
  /\ currentTask # Null
  /\ currentTask.status = "completed"
  /\ jobs = 1
  /\ launched = 2

\* C8: a task appears only where there was none, created by
\* startTranslation; a task disappears only by stopTranslation, by
\* clearCompletedTask on a completed task, or by the stop that
\* startTranslation performs on a running task; no step replaces a task by
\* another.
C8_JobLifecycle ==
  [][/\ JobId(currentTask') # JobId(currentTask) /\ currentTask' # Null
        => currentTask = Null /\ \E call \in BagToSet(starts) : StartCreate(call)
     /\ currentTask # Null /\ currentTask' = Null
        => \/ Stop
           \/ ClearCompleted /\ currentTask.status = "completed"
           \/ StartBeginAny /\ currentTask.status = "running"]_vars

\* C9: stopTranslation leaves no current task, and once there is none only
\* the task creation of startTranslation makes one.
C9_StopYieldsIdle ==
  [][/\ Stop => currentTask' = Null
     /\ currentTask = Null /\ currentTask' # Null
        => \E call \in BagToSet(starts) : StartCreate(call)]_vars

\* a task was stopped while its executeTranslation call was awaiting
C9_Witness ==
  /\ currentTask = Null
  /\ notified = Null
  /\ abortController = "aborted"
  /\ \E L \in BagToSet(loops) : L.pc \in {"batch", "save", "single", "ssave", "delay"}

\* C10: startTranslation called with no chat model configured changes
\* nothing: the task, the abort controller, the pending calls and the
\* notified snapshot stay as they were.
C10_NoModelNoChange ==
  [][StartBegin("b1", <<TextAa>>, 1, FALSE)
     => UNCHANGED <<currentTask, abortController, starts, loops, notified>>]_vars

\* C11: a startTranslation call on a running task broadcasts null; the next
\* broadcast after a null one is the initial snapshot of the task that
\* startTranslation creates (running, completedSentences = the number of
\* cached units); and no executeTranslation call made for an earlier task
\* broadcasts after that.
C11_StartWhileRunning ==
  [][/\ (StartBeginAny /\ currentTask # Null /\ currentTask.status = "running")
        => notified' = Null
     /\ (notified = Null /\ notified' # Null)
        => /\ \E call \in BagToSet(starts) : StartCreate(call)
           /\ notified'.status = "running"
           /\ notified'.completedSentences =
                notified'.totalSentences - Len(notified'.sentences)
     /\ \A L \in BagToSet(loops) :
          (LoopStepOf(L) /\ notified' # notified /\ notified' # Null)
            => L.jobId = notified'.id]_vars

\* every unit of the work set is a key of the lookup's result
AllCached(allSentences, cached) ==
  \A j \in 1..Len(allSentences) : allSentences[j] \in cached

\* the step is the first part (lines 122-135) of the startTranslation call
Begun(call) == starts' = starts (+) One(call)

\* C12 as stated: a startTranslation call whose units are all cached leaves
\* the current task as it was, creates no task and launches no
\* executeTranslation call.
C12_AllCachedNoChange ==
  [][/\ \A call \in BagToSet(starts') :
          (Begun(call) /\ AllCached(call.allSentences, call.cachedTranslations))
            => UNCHANGED <<currentTask, loops, launched>>
     /\ \A call \in BagToSet(starts) :
          (StartCreate(call) /\ AllCached(call.allSentences, call.cachedTranslations))
            => UNCHANGED <<currentTask, loops, launched>>]_vars

\* C12 amended: a startTranslation call whose units are all cached stops the
\* task if it is running and otherwise leaves it as it was; it creates no
\* task and launches no executeTranslation call.
C12_AllCachedNoJob ==
  [][/\ \A call \in BagToSet(starts') :
          (Begun(call) /\ AllCached(call.allSentences, call.cachedTranslations))
            => /\ currentTask' = IF currentTask # Null /\ currentTask.status = "running"
                                 THEN Null ELSE currentTask
               /\ UNCHANGED <<loops, launched, jobs>>
     /\ \A call \in BagToSet(starts) :
          (StartCreate(call) /\ AllCached(call.allSentences, call.cachedTranslations))
            => UNCHANGED <<currentTask, abortController, loops, launched, jobs, notified>>]_vars

\* a startTranslation call for units that are all cached awaits its lookup
C12_Witness ==
  \E call \in BagToSet(starts) :
    /\ call.allSentences # <<>>
    /\ AllCached(call.allSentences, call.cachedTranslations)

\* ------------------------------------- startTranslation on wider inputs
WideWorkSets == SeqsUpTo(WideTexts, MaxWork - 1)

\* the cache after saveTranslation has been called for each of the texts
RECURSIVE SaveAll(_, _, _)
SaveAll(cache, bookId, texts) ==
  IF texts = <<>> THEN cache
  ELSE SaveAll(saveTranslation(cache, bookId, Head(texts), Translated), bookId,
               Tail(texts))

CacheStates == {SaveAll({}, "b1", texts) : texts \in SeqsUpTo(WideTexts, 2)}

\* a startTranslation call awaits the result of its lookup, with no task
InitCreate ==
  /\ currentTask = Null
  /\ abortController = "null"
  /\ db \in CacheStates
  /\ \E allSentences \in WideWorkSets :
       \E batchSize \in BatchSizes(allSentences) :
         /\ starts = One([bookId |-> "b1", allSentences |-> allSentences,
                          batchSize |-> batchSize,
                          cachedTranslations |->
                            getBatchTranslations(db, "b1", allSentences)])
         /\ handed = Len(allSentences)
  /\ loops = EmptyBag
  /\ jobs = 0
  /\ launched = 0
  /\ notified = Null
  /\ listeners = {}
  /\ received = <<>>
  /\ invoked = 0
  /\ saves = EmptyBag
  /\ clock = 0
  /\ nextId = 1
  /\ returned = NoReturn

NextCreate == \E call \in BagToSet(starts) : StartCreate(call)

SpecCreate == InitCreate /\ [][NextCreate]_vars

MissIndexes(allSentences, cached) ==
  {j \in 1..Len(allSentences) : allSentences[j] \notin cached}

\* the n-th smallest element of a set of numbers
NthOf(S, n) == CHOOSE j \in S : Cardinality({m \in S : m <= j}) = n

\* C13: the task that startTranslation creates for a work set with a miss
\* has as sentences the units that miss, in their order in the work set,
\* completedSentences = the number of units that hit, totalSentences = the
\* size of the work set, and completedSentences + |sentences| =
\* totalSentences.
C13_CreatedTask ==
  [][\A call \in BagToSet(starts) :
       (StartCreate(call) /\ ~AllCached(call.allSentences, call.cachedTranslations))
         => LET idx == MissIndexes(call.allSentences, call.cachedTranslations)
                t == currentTask'
            IN  /\ t # Null
                /\ t.status = "running"
                /\ Len(t.sentences) = Cardinality(idx)
                /\ \A n \in 1..Cardinality(idx) :
                     t.sentences[n] = call.allSentences[NthOf(idx, n)]
                /\ t.completedSentences = Len(call.allSentences) - Cardinality(idx)
                /\ t.totalSentences = Len(call.allSentences)
                /\ t.completedSentences + Len(t.sentences) = t.totalSentences]_vars

\* a task created for a work set whose second unit hit and whose first and
\* third units, of different texts, missed
C13_Witness ==
  /\ currentTask # Null
  /\ currentTask.sentences = <<TextAa, TextBB>>
  /\ currentTask.totalSentences = 3
  /\ currentTask.completedSentences = 1
  /\ db # {}

C15_InvalidOpsChangeNothing ==
  [][/\ (Pause /\ StatusOf(currentTask) # "running") => UNCHANGED vars
     /\ (Resume /\ StatusOf(currentTask) # "paused") => UNCHANGED vars
     /\ (ClearCompleted /\ StatusOf(currentTask) # "completed") => UNCHANGED vars]_vars

\* a completed task with an executeTranslation call still in progress:
\* pauseTranslation and resumeTranslation are not valid
C15_Witness ==
  /\ StatusOf(currentTask) = "completed"
  /\ notified = currentTask
  /\ loops # EmptyBag

\* ------------------------------------ one task, paused once and resumed
\* The cache is empty or holds the first text.
InitResume ==
  /\ currentTask = Null
  /\ abortController = "null"
  /\ db \in {{}, SaveAll({}, "b1", <<TextAa>>)}
  /\ starts = EmptyBag
  /\ loops = EmptyBag
  /\ jobs = 0
  /\ launched = 0
  /\ handed = 0
  /\ notified = Null
  /\ listeners = {}
  /\ received = <<>>
  /\ invoked = 0
  /\ saves = EmptyBag
  /\ clock = 0
  /\ nextId = 1
  /\ returned = NoReturn

\* startTranslation is called while no task has been created and no call
\* is in progress, with room left for one resumeTranslation
StartFirst ==
  /\ jobs = 0
  /\ starts = EmptyBag
  /\ \E allSentences \in {s \in WorkSets : CanLaunch(Len(s) + 1)} :
       \E batchSize \in BatchSizes(allSentences) :
         StartBegin("b1", allSentences, batchSize, TRUE)

\* pauseTranslation is called, for the first time, while the
\* executeTranslation call awaits the delay between two windows (line 251)
PauseBetweenWindows ==
  /\ launched = 1
  /\ StatusOf(currentTask) = "running"
  /\ \E L \in BagToSet(loops) : L.pc = "delay"
  /\ Pause

\* resumeTranslation is called after the executeTranslation call has returned
ResumeAfterHalt ==
  /\ loops = EmptyBag
  /\ StatusOf(currentTask) = "paused"
  /\ Resume

LoopSteps == \E L \in BagToSet(loops) : LoopStep(L)

NextResume ==
  \/ StartFirst
  \/ \E call \in BagToSet(starts) : StartCreate(call)
  \/ PauseBetweenWindows
  \/ ResumeAfterHalt
  \/ LoopSteps

\* every request, cache write and delay that is awaited ends
SpecResume == InitResume /\ [][NextResume]_vars /\ WF_vars(LoopSteps)

Completed100(task) ==
  /\ StatusOf(task) = "completed"
  /\ task.completedSentences = task.totalSentences
  /\ task.progress = 100

\* C16: for a task paused between two windows and resumed after its
\* executeTranslation call has returned: resumeTranslation leaves as
\* sentences exactly the last totalSentences - completedSentences units of
\* the list; every window is dispatched when the units counted are exactly
\* those before it (so every unit is in one window and no unit in two); and
\* the task then reaches completed with completedSentences = totalSentences
\* and progress = 100.
C16_PauseResumeCompletes ==
  /\ [][(Resume /\ StatusOf(currentTask) = "paused")
          => LET old == currentTask.sentences
                 n == currentTask.totalSentences - currentTask.completedSentences
             IN  /\ n <= Len(old)
                 /\ currentTask'.sentences = SubSeq(old, Len(old) - n + 1, Len(old))]_vars
  /\ [](\A L \in BagToSet(loops) :
          L.pc \in {"batch", "save", "single", "ssave"}
            => /\ currentTask # Null
               /\ L.sentences = currentTask.sentences
               /\ currentTask.completedSentences =
                    currentTask.totalSentences - Len(L.sentences) + L.i)
  /\ [](launched = 2 => <>Completed100(currentTask))

\* a task with no cached unit, paused after at least one window and before
\* the last, resumed and completed
C16_Witness ==
  /\ Completed100(currentTask)
  /\ launched = 2
  /\ db = {}
  /\ currentTask.totalSentences >= 3
  /\ Len(currentTask.sentences) = 1

\* C17: progress counts attempted units only: a step of executeTranslation
\* that counts a window handled by the fallback loop follows the dispatch of
\* a single-unit request for every unit of the window; a pause that ends the
\* fallback loop early does not count the units it left out.
C17_CountsAttemptedOnly ==
  [][\A L \in BagToSet(loops) :
       (/\ LoopStepOf(L)
        /\ L.pc \in {"single", "ssave"}
        /\ currentTask # Null
        /\ currentTask' # Null
        /\ currentTask'.completedSentences # currentTask.completedSentences)
       => L.k = Len(Batch(L))]_vars

\* ------------------------------- tasks run one after another, undisturbed
\* startTranslation is called while there is no task or a completed one,
\* no startTranslation call is in progress and no executeTranslation call
StartWhenQuiet ==
  /\ StatusOf(currentTask) \in {"null", "completed"}
  /\ starts = EmptyBag
  /\ loops = EmptyBag
  /\ \E allSentences \in {s \in WorkSets : CanLaunch(Len(s))} :
       \E batchSize \in BatchSizes(allSentences) :
         StartBegin("b1", allSentences, batchSize, TRUE)

NextRun ==
  \/ StartWhenQuiet
  \/ \E call \in BagToSet(starts) : StartCreate(call)
  \/ LoopSteps

\* every request, cache write and delay that is awaited ends
SpecRun == Init /\ [][NextRun]_vars /\ WF_vars(LoopSteps)

\* C18: with no pauseTranslation and no stopTranslation, and every awaited
\* request ending, every task that startTranslation creates, whatever its
\* batchSize, reaches the status completed: a running task becomes a
\* completed one, and no task gives way to another before it is completed.
C18_RunsToCompletion ==
  /\ [][JobId(currentTask') # JobId(currentTask)
          => StatusOf(currentTask) \in {"null", "completed"}]_vars
  /\ [](StatusOf(currentTask) = "running"
          => <>(StatusOf(currentTask) = "completed"))

\* a second task, created with a cached unit, has completed in windows of
\* one unit
C18_Witness ==
  /\ StatusOf(currentTask) = "completed"
  /\ jobs = 2
  /\ currentTask.batchSize = 1
  /\ currentTask.totalSentences = 2

\* the step is a subscribe call
Subscribed == Len(received') > Len(received)

\* the step broadcasts to the callbacks that stay registered, and callbacks
\* that have unsubscribed are not called
Delivered ==
  /\ \A cb \in listeners \cap listeners' :
       notified' # notified => received'[cb] = notified'
  /\ \A cb \in DOMAIN received :
       (cb \notin listeners /\ cb \notin listeners') => received'[cb] = received[cb]

\* C19 as stated: subscribe calls the callback exactly once, also when
\* the callback makes the service broadcast from inside that call; from
\* then on the callback receives every broadcast until it unsubscribes and
\* none after.
C19_SubscribeCallsOnce ==
  [][/\ Subscribed => /\ Len(received') \in listeners'
                      /\ invoked' = 1
     /\ Delivered]_vars

\* C19 amended: subscribe registers the callback and then calls it once
\* with the current task; a broadcast made from inside that call reaches
\* the callback too, which is called a second time; when subscribe returns
\* the callback is registered and has last received the current task; from
\* then on it receives every broadcast until it unsubscribes and none after.
C19_SubscribeRegistersFirst ==
  [][/\ Subscribed => LET cb == Len(received')
                      IN  /\ cb \in listeners'
                          /\ received'[cb] = currentTask'
                          /\ invoked' = IF currentTask' # currentTask THEN 2 ELSE 1
     /\ Delivered]_vars

\* a callback has stopped the task from inside subscribe and was called
\* again with null; another callback has unsubscribed
C19_Witness ==
  /\ invoked = 2
  /\ currentTask = Null
  /\ \E cb \in listeners : received[cb] = Null
  /\ \E cb \in DOMAIN received : received[cb] = Gone

\* C20: between any two steps of the service (at every await of a
\* running executeTranslation and after every control call) each registered
\* callback has last received the current task, null when there is none.
C20_ListenersCurrent ==
  /\ notified = currentTask
  /\ \A cb \in listeners : received[cb] = currentTask

\* a registered callback holds a running task with counted progress
\* while its executeTranslation waits between two windows
C20_Witness ==
  /\ StatusOf(currentTask) = "running"
  /\ currentTask.completedSentences > 0
  /\ \E cb \in listeners : received[cb] = currentTask
  /\ \E L \in BagToSet(loops) : L.pc = "delay" /\ L.jobId = currentTask.id

\* the step is a call of getBatchTranslations: no other step of db.ts
\* returns without ending a saveTranslation call
GetBatchReturns == returned' # returned /\ saves' = saves

\* C21: getBatchTranslations(bookId, texts) returns only translations of
\* records of that bookId: every entry of the Map it returns is the
\* originalText and translatedText of a record whose bookId is the one
\* asked for, also when another book has a record with the same
\* sentenceHash for another text.
C21_OwnBookOnly ==
  [][GetBatchReturns
       => \A text \in DOMAIN returned'.map :
            \E r \in db : /\ r.bookId = returned'.bookId
                          /\ r.originalText = text
                          /\ r.translatedText = returned'.map[text]]_vars

\* a lookup for the first book has answered while the second book holds a
\* record with the same hash, another text and another translation
C21_Witness ==
  /\ returned.op = "getBatchTranslations"
  /\ returned.bookId = "b1"
  /\ DOMAIN returned.map # {}
  /\ \E r \in db, q \in db :
       /\ r.bookId = "b1" /\ q.bookId = "b2"
       /\ r.sentenceHash = q.sentenceHash
       /\ r.originalText # q.originalText
       /\ r.translatedText # q.translatedText
       /\ r.originalText \in DOMAIN returned.map

\* C22: whatever the interleaving of saveTranslation calls, the table holds
\* at most one record per (bookId, sentenceHash).
C22_UniqueKey ==
  \A r \in db, q \in db :
    (r.bookId = q.bookId /\ r.sentenceHash = q.sentenceHash) => r = q

\* the records of the table under the key of a call
SameKey(table, call) ==
  {r \in table : r.bookId = call.bookId /\ r.sentenceHash = call.sentenceHash}

\* C23: saveTranslation is an upsert on (bookId, sentenceHash).  Its lookup
\* finds a record exactly when the table holds one under the key.  When it
\* has found one, the call changes of that record only translatedText, the
\* two languages and updatedAt, the table keeps its size and the call
\* returns the record's id.  When it has found none, the call adds exactly
\* one record, under a new id, and returns that id.  No other record of the
\* table is changed.
C23_Upsert ==
  [][/\ \A call \in BagToSet(saves') \ BagToSet(saves) :
          call.pc = "write"
            => /\ (call.existing # NoId) <=> (SameKey(db, call) # {})
               /\ call.existing # NoId
                    => \E r \in SameKey(db, call) : r.id = call.existing
     /\ BagCardinality(saves') < BagCardinality(saves)
          => LET call == returned'.call
             IN  IF call.existing # NoId
                 THEN \E r \in db :
                        /\ r.id = call.existing
                        /\ db' = (db \ {r}) \cup
                                   {[r EXCEPT !.translatedText = call.translatedText,
                                              !.sourceLanguage = call.sourceLanguage,
                                              !.targetLanguage = call.targetLanguage,
                                              !.updatedAt = call.now]}
                        /\ Cardinality(db') = Cardinality(db)
                        /\ returned'.id = r.id
                 ELSE \E r \in db' :
                        /\ r \notin db
                        /\ db' = db \cup {r}
                        /\ Cardinality(db') = Cardinality(db) + 1
                        /\ \A q \in db : q.id # r.id
                        /\ r.bookId = call.bookId
                        /\ r.sentenceHash = generateSentenceHash(call.originalText)
                        /\ r.originalText = call.originalText
                        /\ r.translatedText = call.translatedText
                        /\ r.createdAt = call.now /\ r.updatedAt = call.now
                        /\ returned'.id = r.id]_vars

\* a call for a text has updated the record that another text with the same
\* hash had created: the record keeps its original text and its creation
\* date
C23_Witness ==
  /\ returned.op = "saveTranslation"
  /\ returned.call.existing # NoId
  /\ \E r \in db : /\ r.id = returned.id
                    /\ r.originalText # returned.call.originalText
                    /\ r.translatedText = returned.call.translatedText
                    /\ r.updatedAt # r.createdAt

\* ------------------------------- one task, paused or stopped, not resumed
\* startTranslation is called on the paused first task
StartAfterPause ==
  /\ jobs = 1
  /\ starts = EmptyBag
  /\ StatusOf(currentTask) = "paused"
  /\ \E allSentences \in {s \in WorkSets : CanLaunch(Len(s))} :
       \E batchSize \in BatchSizes(allSentences) :
         StartBegin("b1", allSentences, batchSize, TRUE)

NextHalt ==
  \/ StartFirst
  \/ \E call \in BagToSet(starts) : StartCreate(call)
  \/ Pause
  \/ Stop
  \/ LoopSteps

\* every request, cache write and delay that is awaited ends
SpecHalt == Init /\ [][NextHalt]_vars /\ WF_vars(LoopSteps)

\* the same with a second startTranslation after the pause
NextRestart ==
  \/ NextHalt
  \/ StartAfterPause

SpecRestart == Init /\ [][NextRestart]_vars

\* the first task has been paused (no resumeTranslation is ever called)
PausedFirst == jobs >= 1 /\ (StatusOf(currentTask) = "paused" \/ jobs >= 2)

\* C24: once the first task has been paused, and with no
\* resumeTranslation, its executeTranslation call dispatches no provider
\* request any more, batch or single-unit.
C24_NoDispatchAfterPause ==
  [][\A L \in BagToSet(loops) :
       (PausedFirst /\ L.jobId = 1 /\ LoopStepOf(L)) => ~Dispatches(L)]_vars

\* the task has been paused or stopped
Halted == jobs = 1 /\ StatusOf(currentTask) \in {"paused", "null"}

\* C25: after pauseTranslation or stopTranslation, with no
\* resumeTranslation and no startTranslation following and every awaited
\* request, cache write and delay ending, the executeTranslation call
\* returns; and no step taken in the meantime sets the status completed.
C25_HaltedLoopExits ==
  /\ [][Halted => StatusOf(currentTask') # "completed"]_vars
  /\ [](Halted => <>(loops = EmptyBag))

\* the task was paused while a single-unit request was outstanding and the
\* executeTranslation call has returned, the task still paused
C25_Witness ==
  /\ Halted
  /\ StatusOf(currentTask) = "paused"
  /\ currentTask.completedSentences > 0
  /\ loops = EmptyBag
  /\ db # {}

\* ------------------- one task, paused or stopped while a request is out
\* pauseTranslation or stopTranslation is called while the
\* executeTranslation call awaits a provider request (line 195 or 232)
HaltInFlight ==
  /\ \E L \in BagToSet(loops) : L.pc \in {"batch", "single"}
  /\ (Pause \/ Stop)

NextInFlight ==
  \/ StartFirst
  \/ \E call \in BagToSet(starts) : StartCreate(call)
  \/ HaltInFlight
  \/ LoopSteps

\* every request, cache write and delay that is awaited ends
SpecInFlight == Init /\ [][NextInFlight]_vars /\ WF_vars(LoopSteps)

\* the units of the window of L whose translation in trans is usable
UsableUnits(L, trans) ==
  {j \in 1..Len(Batch(L)) :
     Batch(L)[j] \in DOMAIN trans /\ Usable(trans[Batch(L)[j]], Batch(L)[j])}

\* the frame of the executeTranslation call after the step of L
Successors(L) == {L2 \in BagToSet(loops') : loops' = (loops (-) One(L)) (+) One(L2)}

\* L goes on to write the translation of the j-th unit of its window
SavesNext(L, trans, j) ==
  \E L2 \in Successors(L) :
    L2.pc \in {"save", "ssave"} /\ L2.k = j /\ L2.trans = trans /\ L2.i = L.i

\* C26: when the task is paused or stopped while a provider request is
\* outstanding, the request still answers, and the executeTranslation call
\* writes every usable translation of the answer to the cache before it
\* leaves the window: after a batch answer it goes on to write the first
\* usable unit, each write is carried out and followed by the write of the
\* next usable unit, and after a single-unit answer that is usable it goes
\* on to write it.
C26_InFlightAnswerSaved ==
  [][Halted =>
       \A L \in BagToSet(loops) :
         /\ (L.pc = "batch" /\ LoopStepOf(L))
              => \A response \in BatchResponses(Batch(L)) :
                   LET trans == translateBatch(Batch(L), response)
                   IN  (/\ UsableUnits(L, trans) # {}
                        /\ Apply(L, SaveAt([L EXCEPT !.trans = trans], 1)))
                         => \E j \in UsableUnits(L, trans) :
                              /\ \A m \in UsableUnits(L, trans) : j <= m
                              /\ SavesNext(L, trans, j)
         /\ (L.pc = "single" /\ LoopStepOf(L))
              => \A translation \in SingleResponses(Batch(L)[L.k]) :
                   LET trans == MapPut(<<>>, Batch(L)[L.k], translation)
                   IN  (/\ Usable(translation, Batch(L)[L.k])
                        /\ ~LoopSingleThrow(L)
                        /\ \E L2 \in Successors(L) : L2.trans = trans)
                         => SavesNext(L, trans, L.k)
         /\ (L.pc \in {"save", "ssave"} /\ LoopStepOf(L))
              => /\ db' = saveTranslation(db, L.bookId, Batch(L)[L.k], L.trans[Batch(L)[L.k]])
                 /\ \E r \in db' : /\ r.bookId = L.bookId
                                    /\ r.sentenceHash = generateSentenceHash(Batch(L)[L.k])
                                    /\ r.translatedText = L.trans[Batch(L)[L.k]]
                 /\ L.pc = "save"
                      => \A j \in UsableUnits(L, L.trans) :
                           (j > L.k /\ \A m \in UsableUnits(L, L.trans) : m > L.k => j <= m)
                             => SavesNext(L, L.trans, j)]_vars

\* the task was stopped while its batch request was outstanding; the answer
\* has come, the first unit of the window is in the cache and the second
\* is being written
C26_Witness ==
  /\ jobs = 1
  /\ currentTask = Null
  /\ db # {}
  /\ \E L \in BagToSet(loops) : L.pc = "save" /\ L.k = 2

\* --------------------------- one task, paused and resumed again and again
\* The work set of n units: the three texts in turn.
AllTexts == <<TextAa, TextBB, TextC>>
CycleList(n) == [j \in 1..n |-> AllTexts[((j - 1) % 3) + 1]]

\* startTranslation is called once, on an empty cache, for windows of one
\* unit
StartCycle ==
  /\ jobs = 0
  /\ starts = EmptyBag
  /\ \E n \in 1..(MaxWork - 2) : StartBegin("b1", CycleList(n), 1, TRUE)

\* resumeTranslation is called, at any time
ResumeCycle ==
  /\ launched < MaxWork - 1
  /\ ResumeCall

NextCycles ==
  \/ StartCycle
  \/ \E call \in BagToSet(starts) : StartCreate(call)
  \/ Pause
  \/ ResumeCycle
  \/ LoopSteps

SpecCycles == Init /\ [][NextCycles]_vars

\* C27: whatever the pauses and resumes before, resumeTranslation leaves
\* as sentences the list recorded at the start (here the whole work set:
\* the cache was empty, so totalSentences minus its length is 0) sliced at
\* completedSentences minus the units cached at the start.
C27_ResumeSlicesOriginal ==
  [][(ResumeCall /\ StatusOf(currentTask) = "paused")
       => LET original == CycleList(currentTask.totalSentences)
              initialCacheHits == currentTask.totalSentences - Len(original)
          IN  currentTask'.sentences =
                SliceFrom(original, currentTask.completedSentences - initialCacheHits)]_vars

\* C28: an executeTranslation call that is not cancelled takes the task's
\* sentences in windows, in the order of the list: the first window starts
\* at the first unit, each further one batchSize units after the one
\* before; a window holds the batchSize units from its start, the last one
\* the 1..batchSize units that remain; one batch request is dispatched per
\* window, when the call enters the window; and the call returns only when
\* no unit is left after its window.
C28_WindowsInOrder ==
  [][\A L \in BagToSet(loops) :
       LoopStep(L) =>
         /\ \A L2 \in Successors(L) :
              /\ L.pc # "entry" => /\ L2.sentences = L.sentences
                                   /\ L2.batchSize = L.batchSize
              /\ L.pc = "entry" => /\ L2.sentences = currentTask.sentences
                                   /\ L2.batchSize = currentTask.batchSize
              /\ L2.pc = "batch" <=> L.pc \in {"entry", "delay"}
              /\ L2.i = (CASE L.pc = "entry" -> 0
                            [] L.pc = "delay" -> L.i + L.batchSize
                            [] OTHER -> L.i)
              /\ L2.i < Len(L2.sentences)
              /\ Len(Batch(L2)) = Min(L2.batchSize, Len(L2.sentences) - L2.i)
              /\ \A j \in 1..Len(Batch(L2)) : Batch(L2)[j] = L2.sentences[L2.i + j]
         /\ Successors(L) = {}
              => /\ L.pc \in {"entry", "delay"}
                 /\ L.pc = "delay" => L.i + L.batchSize >= Len(L.sentences)
                 /\ L.pc = "entry" => currentTask.sentences = <<>>]_vars

\* the call has entered its second and last window, which holds one unit
\* where batchSize is 2
C28_Witness ==
  \E L \in BagToSet(loops) :
    /\ L.pc = "batch"
    /\ L.i = 2
    /\ L.batchSize = 2
    /\ Len(L.sentences) = 3
    /\ Batch(L) = <<L.sentences[3]>>

\* C29: with no cancellation, when the batch request of a window of n
\* units throws, the executeTranslation call dispatches a single-unit
\* request for the first unit, then, each request having answered or
\* thrown (and its translation, if usable, having been written), one for
\* the next unit, up to the n-th, and only then counts the window; a
\* single-unit request is dispatched in no other way, so that within the
\* call a unit gets at most the batch request of its window and one
\* single-unit request.
C29_FallbackOncePerUnit ==
  [][\A L \in BagToSet(loops) :
       LoopStepOf(L) =>
         /\ (L.pc = "batch" /\ LoopBatchThrow(L))
              => \E L2 \in Successors(L) : L2.pc = "single" /\ L2.k = 1
         /\ \A L2 \in Successors(L) :
              /\ L2.pc = "single"
                   => /\ L.pc \in {"batch", "single", "ssave"}
                      /\ L.pc = "batch" => LoopBatchThrow(L)
                      /\ L2.k = (IF L.pc = "batch" THEN 1 ELSE L.k + 1)
                      /\ L2.k <= Len(Batch(L))
                      /\ L2.i = L.i /\ L2.sentences = L.sentences
              /\ L2.pc = "ssave" => L.pc = "single" /\ L2.k = L.k /\ L2.i = L.i
              /\ (L.pc \in {"single", "ssave"} /\ L2.pc \notin {"single", "ssave"})
                   => L2.pc = "delay" /\ L.k = Len(Batch(L))
         /\ L.pc \in {"single", "ssave"} => Successors(L) # {}]_vars

\* the batch request of a window of three units has thrown and the
\* single-unit request for its third unit is out
C29_Witness ==
  \E L \in BagToSet(loops) :
    /\ L.pc = "single"
    /\ L.k = 3
    /\ Len(Batch(L)) = 3
    /\ StatusOf(currentTask) = "running"
    /\ currentTask.completedSentences = 0

\* C30: when the batch request of a window answers with nothing that can
\* be parsed (here the empty response), the executeTranslation call goes
\* on to the single-unit requests of the window, as when the request
\* throws.
C30_UnparseableFallsBack ==
  [][\A L \in BagToSet(loops) :
       (/\ L.pc = "batch"
        /\ LoopStepOf(L)
        /\ Apply(L, SaveAt([L EXCEPT !.trans = translateBatch(Batch(L), <<>>)], 1)))
       => \E L2 \in Successors(L) : L2.pc = "single" /\ L2.k = 1]_vars

\* the pcs of an executeTranslation call inside a window
InWindow == {"batch", "save", "single", "ssave"}

\* C31: in a run that is not cancelled, the step by which an
\* executeTranslation call leaves a window, after the batch answer and its
\* writes or after the last single-unit request, adds the size of the window
\* to completedSentences, whatever was written for its units, sets progress
\* to match and notifies the task so counted; no other step of the window
\* changes completedSentences, and a call never returns from inside a
\* window, so each window is counted once.
C31_WindowCountedOnce ==
  [][\A L \in BagToSet(loops) :
       (L.pc \in InWindow /\ LoopStepOf(L)) =>
         /\ Successors(L) # {}
         /\ \A L2 \in Successors(L) :
              IF L2.pc = "delay"
              THEN /\ currentTask'.completedSentences =
                        currentTask.completedSentences + Len(Batch(L))
                   /\ currentTask'.progress =
                        Progress(currentTask'.completedSentences, currentTask.totalSentences)
                   /\ notified' = currentTask'
                   /\ L2.i = L.i
              ELSE /\ L2.pc \in InWindow
                   /\ L2.i = L.i
                   /\ currentTask' = currentTask
                   /\ notified' = notified]_vars

\* a window of two units has been left with nothing written for either
\* unit, and both are counted and notified
C31_Witness ==
  /\ db = {}
  /\ StatusOf(currentTask) = "running"
  /\ currentTask.completedSentences = 2
  /\ notified = currentTask
  /\ \E L \in BagToSet(loops) : L.pc = "delay" /\ L.batchSize = 2 /\ L.i = 0

\* completedSentences when the run of the task began: startTranslation
\* creates the task with completedSentences = totalSentences - the length of
\* sentences (lines 141-156) and resumeTranslation cuts sentences down to
\* the units not yet counted (lines 291-297)
RunStart(task) == task.totalSentences - Len(task.sentences)

\* C32: every task that notify() passes to the listeners while it is
\* running shows whole windows only: the units counted since its run began
\* are a multiple of batchSize, or all the units of the run.
C32_WholeWindowsNotified ==
  (notified # Null /\ notified.status = "running")
    => LET counted == notified.completedSentences - RunStart(notified)
       IN  \/ counted % notified.batchSize = 0
           \/ counted = Len(notified.sentences)

\* ------------- tasks run undisturbed, the provider answering with any text
\* the single-unit request answers with another text of the work set
LoopSingleAnswerText(L) ==
  /\ L \in BagToSet(loops)
  /\ L.pc = "single"
  /\ \E translation \in Texts \ {Batch(L)[L.k]} : LoopSingleAnswer(L, translation)

\* the batch request answers with lines to pass over among the others
LoopBatchAnswerJunk(L) ==
  /\ L \in BagToSet(loops)
  /\ L.pc = "batch"
  /\ \E response \in JunkResponses(Batch(L)) : LoopBatchAnswer(L, response)

NextAnyAnswer ==
  \/ NextRun
  \/ \E L \in BagToSet(loops) : LoopSingleAnswerText(L)
  \/ \E L \in BagToSet(loops) : LoopBatchAnswerJunk(L)

SpecAnyAnswer == Init /\ [][NextAnyAnswer]_vars /\ WF_vars(LoopSteps)

\* the translation that L hands to saveTranslationToDB is usable
PutOnlyUsable ==
  \A L \in BagToSet(loops) :
    L.pc \in {"save", "ssave"}
      => /\ Batch(L)[L.k] \in DOMAIN L.trans
         /\ Usable(L.trans[Batch(L)[L.k]], Batch(L)[L.k])

\* C33: the execution loop never leaves a cache entry whose translatedText
\* is empty or equal to its originalText.
C33_NoEmptyOrEchoEntry ==
  \A r \in db : r.translatedText # Empty /\ r.translatedText # r.originalText

\* ------------------------------------------- translateBatch taken alone
\* the answers to a batch request: the lines of BatchResponses, with or
\* without lines to pass over
AnyResponses(batch) == BatchResponses(batch) \cup JunkResponses(batch)

\* translateBatch is called with a window, which is not empty, and the
\* provider answers with response
InitParse ==
  /\ Init!1 /\ Init!2 /\ Init!3 /\ Init!4 /\ Init!5 /\ Init!6 /\ Init!7 /\ Init!8
  /\ Init!9 /\ Init!10 /\ Init!11 /\ Init!12 /\ Init!13 /\ Init!14 /\ Init!15
  /\ \E sentences \in WorkSets \ {<<>>} :
       \E response \in AnyResponses(sentences) :
         returned = [op |-> "completions", sentences |-> sentences,
                     response |-> response]

\* lines 83-112: the response is parsed and the Map returned
TranslateBatchReturns ==
  /\ returned.op = "completions"
  /\ returned' = [op |-> "translateBatch", sentences |-> returned.sentences,
                  response |-> returned.response,
                  map |-> translateBatch(returned.sentences, returned.response)]
  /\ UNCHANGED <<db, saves, clock, nextId>>
  /\ UNCHANGED service

SpecParse == InitParse /\ [][TranslateBatchReturns]_vars

\* C34: the Map that translateBatch returns holds a translation for the
\* unit at position k of the window only if the response has a line tagged
\* k, 1 <= k <= window size, with that translation.
C34_TranslationFromOwnTag ==
  returned.op = "translateBatch"
    => \A k \in 1..Len(returned.sentences) :
         returned.sentences[k] \in DOMAIN returned.map
           => \E n \in 1..Len(returned.response) :
                /\ returned.response[n].tag = k
                /\ returned.response[n].body = returned.map[returned.sentences[k]]

\* C34 as amended: the Map that translateBatch returns holds translations
\* for texts of the window only, none of them empty, and one for the unit
\* at position k only if the response has a line with that translation
\* whose tag is in 1..window size and is the position of a unit with the
\* text of unit k; lines without a tag or tagged outside that range give no
\* translation, and the call returns its Map whatever the lines are.
C34_TranslationFromTagOfText ==
  returned.op = "translateBatch"
    => LET batch == returned.sentences
       IN  /\ DOMAIN returned.map \subseteq {batch[k] : k \in 1..Len(batch)}
           /\ \A k \in 1..Len(batch) :
                batch[k] \in DOMAIN returned.map
                  => /\ returned.map[batch[k]] # Empty
                     /\ \E n \in 1..Len(returned.response) :
                          /\ returned.response[n].tag \in 1..Len(batch)
                          /\ batch[returned.response[n].tag] = batch[k]
                          /\ returned.response[n].body = returned.map[batch[k]]

\* the response to a window of two units with different texts held a line
\* without a tag, a line tagged 0, a line tagged 3 and a line tagged 2:
\* the Map holds a translation for the second unit and none for the first
C34_Witness ==
  /\ returned.op = "translateBatch"
  /\ returned.sentences = <<TextAa, TextBB>>
  /\ \E n \in 1..Len(returned.response) : returned.response[n].tag = NoTag
  /\ \E n \in 1..Len(returned.response) : returned.response[n].tag = 0
  /\ \E n \in 1..Len(returned.response) : returned.response[n].tag = 3
  /\ DOMAIN returned.map = {TextBB}

\* C35: when a single-unit request throws, the step of the
\* executeTranslation call writes nothing to the cache and leaves the
\* status of the task as it is (running if it was); if the task is still
\* running and the window has further units the call goes on to the request
\* for the next unit, else it leaves the window; and from a single-unit
\* request or its write a call only ever moves on, to the same unit's
\* write, the next unit's request or the end of the window, so that the
\* unit is not requested again by this call.
C35_SingleFailureSkipsUnit ==
  [][\A L \in BagToSet(loops) :
       /\ (L.pc = "single" /\ LoopSingleThrow(L))
            => /\ db' = db
               /\ StatusOf(currentTask') = StatusOf(currentTask)
               /\ StatusOf(currentTask') # "error"
               /\ (Check = "go" /\ L.k < Len(Batch(L)))
                    => \E L2 \in Successors(L) : L2.pc = "single" /\ L2.k = L.k + 1
               /\ \A L2 \in Successors(L) : L2.pc # "ssave"
       /\ (L.pc \in {"single", "ssave"} /\ LoopStepOf(L))
            => \A L2 \in Successors(L) :
                 /\ L2.i = L.i
                 /\ L2.pc \in {"single", "ssave", "delay"}
                 /\ L2.pc = "single" => L2.k = L.k + 1
                 /\ L2.pc = "ssave" => L.pc = "single" /\ L2.k = L.k
       /\ (L.pc = "delay" /\ LoopStepOf(L))
            => \A L2 \in Successors(L) : L2.i > L.i]_vars

\* the single-unit request for the first unit of a window of two has ended
\* with nothing written, the task is running and the request for the second
\* unit is out
C35_Witness ==
  /\ db = {}
  /\ StatusOf(currentTask) = "running"
  /\ \E L \in BagToSet(loops) : L.pc = "single" /\ L.k = 2 /\ Len(Batch(L)) = 2

\* ------------------------ one task, the set-up of whose loop may throw
\* what createLLMClient(chatModel) does: it returns a client or throws
CreateLLMClient == {"client", "throw"}

\* lines 173-177: executeTranslation passes the test of line 174 and
\* createLLMClient throws at line 177, before the try of line 183: the
\* promise of executeTranslation is rejected, and neither startTranslation
\* (line 169) nor resumeTranslation (line 305) awaits or catches it
LoopEntryThrow(L) ==
  /\ L \in BagToSet(loops)
  /\ L.pc = "entry"
  /\ currentTask # Null
  /\ currentTask.status = "running"
  /\ "throw" \in CreateLLMClient
  /\ loops' = loops (-) One(L)
  /\ UNCHANGED <<currentTask, abortController, db, starts, jobs, launched, handed,
                 notified, listeners, received, invoked, saves, clock, nextId, returned>>

NextSetup ==
  \/ NextHalt
  \/ \E L \in BagToSet(loops) : LoopEntryThrow(L)

SpecSetup == Init /\ [][NextSetup]_vars /\ WF_vars(LoopSteps)

\* C36: a task never remains running with no executeTranslation call in
\* progress: an exception that ends the call, also one raised before its
\* first window, leaves the task with the status error.
C36_RunningHasLoop ==
  StatusOf(currentTask) = "running" => loops # EmptyBag

\* --------------- tasks run undisturbed on a cache whose calls may fail
\* saveTranslation fails and throws the error on to line 201
LoopSaveFailsEscapes(L) ==
  /\ ~Sync
  /\ L \in BagToSet(loops)
  /\ L.pc = "save"
  /\ Apply(L, FallbackAt(L, 1))
  /\ UNCHANGED <<abortController, db, starts, jobs, launched, handed, listeners, invoked,
                 saves, clock, nextId, returned>>

\* line 201 with db.ts 105-108: saveTranslation fails for the k-th unit of
\* the window, logs the error and returns undefined
LoopSaveFails(L) ==
  /\ ~Sync
  /\ L \in BagToSet(loops)
  /\ L.pc = "save"
  /\ Apply(L, SaveAt(L, L.k + 1))
  /\ UNCHANGED <<abortController, db, starts, jobs, launched, handed, listeners, invoked,
                 saves, clock, nextId, returned>>

\* line 235 with db.ts 105-108: the same for the fallback unit
LoopSingleSaveFails(L) ==
  /\ ~Sync
  /\ L \in BagToSet(loops)
  /\ L.pc = "ssave"
  /\ Apply(L, FallbackAt(L, L.k + 1))
  /\ UNCHANGED <<abortController, db, starts, jobs, launched, handed, listeners, invoked,
                 saves, clock, nextId, returned>>

\* line 135 with db.ts 130-133: startTranslation is called as under SpecRun
\* and the query of getBatchTranslations fails: it answers an empty Map
StartFailedGet ==
  /\ StatusOf(currentTask) \in {"null", "completed"}
  /\ starts = EmptyBag
  /\ loops = EmptyBag
  /\ \E allSentences \in {s \in WorkSets : CanLaunch(Len(s))} :
       \E batchSize \in BatchSizes(allSentences) :
         StartBeginGot("b1", allSentences, batchSize, TRUE, {})

NextStorage ==
  \/ NextRun
  \/ StartFailedGet
  \/ \E L \in BagToSet(loops) : LoopSaveFails(L)
  \/ \E L \in BagToSet(loops) : LoopSingleSaveFails(L)

SpecStorage == Init /\ [][NextStorage]_vars /\ WF_vars(LoopSteps)

\* C37: a failing saveTranslation during the loop changes neither the cache
\* nor the status of the task, which stays running; the call goes on with
\* the window and counts it whole when it leaves it; a startTranslation
\* whose getBatchTranslations failed creates its task with every unit
\* pending and completedSentences 0; no task gets the status error, and
\* every running task reaches completed.
C37_StorageFailuresAbsorbed ==
  /\ [][\A L \in BagToSet(loops) :
          ((L.pc = "save" /\ LoopSaveFails(L)) \/ (L.pc = "ssave" /\ LoopSingleSaveFails(L)))
            => /\ db' = db
               /\ StatusOf(currentTask) = "running"
               /\ StatusOf(currentTask') = "running"
               /\ Successors(L) # {}
               /\ \A L2 \in Successors(L) :
                    /\ L2.i = L.i
                    /\ L2.pc \in (IF L.pc = "save" THEN {"save", "delay"}
                                                 ELSE {"single", "delay"})
                    /\ L2.pc # "delay" => L2.k > L.k
                    /\ L2.pc = "delay"
                         => /\ currentTask'.completedSentences =
                                 currentTask.completedSentences + Len(Batch(L))
                            /\ notified' = currentTask']_vars
  /\ [][\A call \in BagToSet(starts) :
          (/\ call.cachedTranslations = {}
           /\ call.allSentences # <<>>
           /\ StartCreate(call))
            => /\ currentTask'.sentences = call.allSentences
               /\ currentTask'.totalSentences = Len(call.allSentences)
               /\ currentTask'.completedSentences = 0
               /\ currentTask'.progress = 0
               /\ currentTask'.status = "running"]_vars
  /\ [](StatusOf(currentTask) # "error")
  /\ [](StatusOf(currentTask) = "running" => <>(StatusOf(currentTask) = "completed"))

\* a second task was created after a failed query: it is running with all
\* its units pending and none counted, although the cache holds the
\* translation of one of them
C37_Witness ==
  /\ jobs = 2
  /\ StatusOf(currentTask) = "running"
  /\ currentTask.completedSentences = 0
  /\ Len(currentTask.sentences) = currentTask.totalSentences
  /\ getBatchTranslations(db, currentTask.bookId, currentTask.sentences) # {}

\* the texts of a list
TextsOf(sentences) == {sentences[j] : j \in 1..Len(sentences)}

\* C38: every key of the Map that getBatchTranslations returns is one of
\* the texts asked for, and when the call follows the return of a
\* saveTranslation(bookId, t, x), with no other saveTranslation in progress,
\* and asks for t in the same book, the Map holds x for t.
C38_RoundTrip ==
  [][GetBatchReturns =>
       /\ DOMAIN returned'.map \subseteq TextsOf(returned'.sentences)
       /\ (/\ returned.op = "saveTranslation"
           /\ saves = EmptyBag
           /\ returned.call.bookId = returned'.bookId
           /\ returned.call.originalText \in TextsOf(returned'.sentences))
            => /\ returned.call.originalText \in DOMAIN returned'.map
               /\ returned'.map[returned.call.originalText] = returned.call.translatedText]_vars

\* ------------------- one task on a cache that is purged and counted
\* a cache entry as the service writes it
Entry(bookId, text) ==
  [bookId |-> bookId, sentenceHash |-> generateSentenceHash(text),
   originalText |-> text, translatedText |-> Translated]

\* what the cache holds at first: entries of both books, left by earlier
\* tasks; the first holds a unit of the work sets, the second does not
CacheContents ==
  {{Entry("b1", TextAa), Entry("b2", TextAa)},
   {Entry("b1", TextC), Entry("b2", TextAa), Entry("b2", TextC)}}

InitCache ==
  /\ Init!1 /\ Init!2 /\ Init!4 /\ Init!5 /\ Init!6 /\ Init!7 /\ Init!8 /\ Init!9
  /\ Init!10 /\ Init!11 /\ Init!12 /\ Init!13 /\ Init!14 /\ Init!15 /\ Init!16
  /\ db \in CacheContents

\* deleteBookTranslations that also deletes the entries of the other books
DeleteBookAll(bookId) ==
  /\ db' = {}
  /\ UNCHANGED <<saves, clock, nextId, returned>>
  /\ UNCHANGED service

\* lines 137-143: db.translations.where('bookId').equals(bookId).delete()
DeleteBook(bookId) ==
  /\ db' = {r \in db : r.bookId # bookId}
  /\ UNCHANGED <<saves, clock, nextId, returned>>
  /\ UNCHANGED service

\* lines 146-153: db.translations.clear()
ClearAll ==
  /\ db' = {}
  /\ UNCHANGED <<saves, clock, nextId, returned>>
  /\ UNCHANGED service

\* lines 156-158: getTranslationStats up to the await of its second read;
\* count() has answered
StatsCount ==
  /\ returned' = [op |-> "count", total |-> Cardinality(db)]
  /\ UNCHANGED <<db, saves, clock, nextId>>
  /\ UNCHANGED service

\* lines 159-163: orderBy('bookId').uniqueKeys() has answered and the
\* call returns
StatsKeys ==
  /\ returned.op = "count"
  /\ returned' = [op |-> "getTranslationStats",
                  totalTranslations |-> returned.total,
                  totalBooks |-> Cardinality({r.bookId : r \in db})]
  /\ UNCHANGED <<db, saves, clock, nextId>>
  /\ UNCHANGED service

NextCache ==
  \/ NextHalt
  \/ ResumeAfterHalt
  \/ ClearCompleted
  \/ \E bookId \in DbBookIds : DeleteBook(bookId)
  \/ ClearAll
  \/ StatsCount
  \/ StatsKeys

SpecCache == InitCache /\ [][NextCache]_vars

\* the entry r is still in the cache after the step, whatever its
\* translation now is
Kept(r) ==
  \E r2 \in db' : /\ r2.bookId = r.bookId
                  /\ r2.sentenceHash = r.sentenceHash
                  /\ r2.originalText = r.originalText

\* C39: a step that removes an entry from the cache is a step of
\* deleteBookTranslations or of clearAllTranslations, so that no step of
\* startTranslation, pauseTranslation, resumeTranslation, stopTranslation,
\* clearCompletedTask or executeTranslation removes one;
\* deleteBookTranslations(bookId) removes the entries of that book and
\* leaves all others as they are; clearAllTranslations leaves the cache
\* empty, and getTranslationStats reading an empty cache returns
\* totalTranslations 0 and totalBooks 0.
C39_RemovedOnlyByPurge ==
  [][/\ (\E r \in db : ~Kept(r))
          => (ClearAll \/ \E bookId \in DbBookIds : DeleteBook(bookId))
     /\ service' # service => \A r \in db : Kept(r)
     /\ \A bookId \in DbBookIds :
          DeleteBook(bookId)
            => /\ db' \subseteq db
               /\ \A r \in db : r \in db' <=> r.bookId # bookId
     /\ ClearAll => db' = {}
     /\ (returned'.op = "count" /\ returned' # returned /\ db = {})
          => returned'.total = 0
     /\ (returned'.op = "getTranslationStats" /\ returned' # returned)
          => /\ returned.op = "count"
             /\ returned'.totalTranslations = returned.total
             /\ db = {} => returned'.totalBooks = 0]_vars

\* the entries of the first book have been deleted while its task ran, the
\* entries of the second are all there and getTranslationStats has counted
\* them: one book
C39_Witness ==
  /\ jobs = 1
  /\ db \in {{r \in c : r.bookId = "b2"} : c \in CacheContents}
  /\ returned = [op |-> "getTranslationStats", totalTranslations |-> Cardinality(db),
                 totalBooks |-> 1]

====
